---- MODULE Spec2Model ----
(***************************************************************************)
(* A model of ipc-server: IpcServer::new, IpcServer::handle_new_messages,  *)
(* IpcServer::process_command and client_send (src/src/lib.rs) together    *)
(* with the example command set of src/examples/simple/simple.rs.          *)
(*                                                                         *)
(* The sockets are mio's non-blocking Unix sockets.  Every system call of  *)
(* a server or of a client is one step; the steps of the processes         *)
(* interleave freely.  bincode writes a value field by field, one write    *)
(* per field, and reads it back from one slice.                            *)
(***************************************************************************)
EXTENDS Naturals, Sequences, FiniteSets

\* ------------------------------------------------------------------ bounds
NumClients == 2      \* client_send calls, each one connection
NumServers == 2      \* IpcServer::new calls on the same socket path
MaxValue == 2        \* the u64 operands of Add and Push range over 1..MaxValue

\* ------------------------------------------------------- program constants
BUFFER_SIZE == 1024  \* let mut buffer = [0; 1024]
SOCKET_MODE == 384   \* Permissions::from_mode(0o600)

Clients == 1..NumClients
Servers == 1..NumServers

Min(a, b) == IF a < b THEN a ELSE b
Take(bytes, n) == SubSeq(bytes, 1, Min(n, Len(bytes)))
Drop(bytes, n) == SubSeq(bytes, Min(n, Len(bytes)) + 1, Len(bytes))
Last(seq) == seq[Len(seq)]

RECURSIVE Flatten(_)
Flatten(chunks) ==
    IF chunks = <<>> THEN <<>> ELSE Head(chunks) \o Flatten(Tail(chunks))

\* ------------------------------------------------------------------- codec
\* bincode's fixed-width little-endian integers
RECURSIVE LittleEndian(_, _)
LittleEndian(v, width) ==
    IF width = 0 THEN <<>>
    ELSE <<v % 256>> \o LittleEndian(v \div 256, width - 1)

RECURSIVE FromLittleEndian(_)
FromLittleEndian(bytes) ==
    IF bytes = <<>> THEN 0
    ELSE Head(bytes) + 256 * FromLittleEndian(Tail(bytes))

\* enum ClientCommand { Print { payload }, Add { a, b }, Push { x } }
Command(op, a, b, payload) == [op |-> op, a |-> a, b |-> b, payload |-> payload]
PrintCommand(payload) == Command("Print", 0, 0, payload)
Add(a, b) == Command("Add", a, b, <<>>)
Push(x) == Command("Push", x, 0, <<>>)
NoCommand == Command("None", 0, 0, <<>>)

\* enum ClientResponse { PrintAck, Add { c }, Push { x } }
Response(op, v) == [op |-> op, v |-> v]
NoResponse == Response("None", 0)

\* bincode::serialize_into(writer, command): the writes it issues, in order.
\* A write of no bytes (the empty payload) never reaches the socket.
SerializeCommand(cmd) ==
    CASE cmd.op = "Print" ->
           <<LittleEndian(0, 4), LittleEndian(Len(cmd.payload), 8)>>
              \o (IF cmd.payload = <<>> THEN <<>> ELSE <<cmd.payload>>)
      [] cmd.op = "Add" ->
           <<LittleEndian(1, 4), LittleEndian(cmd.a, 8), LittleEndian(cmd.b, 8)>>
      [] cmd.op = "Push" ->
           <<LittleEndian(2, 4), LittleEndian(cmd.a, 8)>>

SerializeResponse(resp) ==
    CASE resp.op = "PrintAck" -> <<LittleEndian(0, 4)>>
      [] resp.op = "Add" -> <<LittleEndian(1, 4), LittleEndian(resp.v, 8)>>
      [] resp.op = "Push" -> <<LittleEndian(2, 4), LittleEndian(resp.v, 8)>>

Utf8(bytes) == \A k \in 1..Len(bytes) : bytes[k] < 128

\* mutant: a string cut short by the end of the slice is taken as it is
DeserializeStringLenient(bytes) ==
    IF Len(bytes) < 8 THEN [ok |-> FALSE, v |-> <<>>]
    ELSE [ok |-> Utf8(Drop(bytes, 8)),
          v |-> SubSeq(bytes, 9, Min(Len(bytes), 8 + FromLittleEndian(SubSeq(bytes, 1, 8))))]

\* A String: a u64 length, then that many bytes, all of which must be there.
DeserializeString(bytes) ==
    IF Len(bytes) < 8 THEN [ok |-> FALSE, v |-> <<>>]
    ELSE LET n == FromLittleEndian(SubSeq(bytes, 1, 8))
         IN  IF Len(bytes) < 8 + n \/ ~Utf8(SubSeq(bytes, 9, 8 + n))
             THEN [ok |-> FALSE, v |-> <<>>]
             ELSE [ok |-> TRUE, v |-> SubSeq(bytes, 9, 8 + n)]

\* bincode::deserialize::<C>(&buffer[..bytes_read]); trailing bytes are allowed.
DeserializeCommand(bytes) ==
    IF Len(bytes) < 4 THEN [ok |-> FALSE, v |-> NoCommand]
    ELSE LET tag == FromLittleEndian(SubSeq(bytes, 1, 4))
             rest == Drop(bytes, 4)
         IN  CASE tag = 0 ->
                    LET s == DeserializeString(rest)
                    IN  [ok |-> s.ok, v |-> IF s.ok THEN PrintCommand(s.v) ELSE NoCommand]
               [] tag = 1 ->
                    IF Len(rest) < 16 THEN [ok |-> FALSE, v |-> NoCommand]
                    ELSE [ok |-> TRUE,
                          v |-> Add(FromLittleEndian(SubSeq(rest, 1, 8)),
                                    FromLittleEndian(SubSeq(rest, 9, 16)))]
               [] tag = 2 ->
                    IF Len(rest) < 8 THEN [ok |-> FALSE, v |-> NoCommand]
                    ELSE [ok |-> TRUE, v |-> Push(FromLittleEndian(SubSeq(rest, 1, 8)))]
               [] OTHER -> [ok |-> FALSE, v |-> NoCommand]

\* bincode::deserialize::<C::Response>(&buffer[..bytes_read])
DeserializeResponse(bytes) ==
    IF Len(bytes) < 4 THEN [ok |-> FALSE, v |-> NoResponse]
    ELSE LET tag == FromLittleEndian(SubSeq(bytes, 1, 4))
             rest == Drop(bytes, 4)
         IN  CASE tag = 0 -> [ok |-> TRUE, v |-> Response("PrintAck", 0)]
               [] tag \in {1, 2} ->
                    IF Len(rest) < 8 THEN [ok |-> FALSE, v |-> NoResponse]
                    ELSE [ok |-> TRUE,
                          v |-> Response(IF tag = 1 THEN "Add" ELSE "Push",
                                         FromLittleEndian(SubSeq(rest, 1, 8)))]
               [] OTHER -> [ok |-> FALSE, v |-> NoResponse]

\* ClientCommand::process: the response and the context (a Vec<u64>) after it
process(cmd, context) ==
    CASE cmd.op = "Print" -> [resp |-> Response("PrintAck", 0), context |-> context]
      [] cmd.op = "Add" -> [resp |-> Response("Add", cmd.a + cmd.b), context |-> context]
      [] cmd.op = "Push" -> [resp |-> Response("Push", cmd.a),
                             context |-> Append(context, cmd.a)]

\* fn would_block(err)
would_block(kind) == kind = "WouldBlock"

\* mutant: the kind of the underlying io::Error is kept
SerializeErrorKindRaw(raw) == raw

\* line 100: .map_err(|e| io::Error::new(io::ErrorKind::InvalidData, e)):
\* the kind of the io::Error that process_command matches on
SerializeErrorKind(raw) == "InvalidData"

\* ------------------------------------------------------------------- state
VARIABLES
    umask,      \* the file mode creation mask of the server processes
    fs,         \* what is at socket_path: [kind, owner, mode]
    fslog,      \* history: the file system calls of IpcServer::new, in order
    spc,        \* per server: where it is in new / handle_new_messages
    backlog,    \* per server: the listener's queue of pending connections
    ready,      \* per server: a readiness event of Token(0) is queued in Poll
    cur,        \* per server: the accepted stream in scope (0: none)
    command,    \* per server: the decoded command
    response,   \* per server: the response being written
    wpos,       \* per server: fields of the response written so far
    context,    \* per server: the application's Vec<u64>
    ret,        \* per server: what the last handle_new_messages returned
    why,        \* per server: history, how its accept loop ended
    log,        \* per server: history, what it did to which connection
    ops,        \* per connection: history, how often the server did each step
    cpc,        \* per client: where it is in client_send
    ccmd,       \* per client: the name of the command it sends
    cuid,       \* per client: the user it runs as
    cw,         \* per client: fields of the command written so far
    cres,       \* per client: what client_send printed (its panic message too)
    cwb,        \* per client: history, a read has failed with WouldBlock
    peer,       \* per client: the server its connection reached (0: none)
    cst,        \* per connection: the server's end
    cclosed,    \* per connection: the client's end is closed
    rst,        \* per connection: the server's end was closed with unread data
    c2s,        \* per connection: bytes written by the client, not yet read
    s2c         \* per connection: bytes written by the server, not yet read

svars == <<spc, backlog, ready, cur, command, response, wpos, context, ret, why, log,
           ops>>
cvars == <<cpc, ccmd, cuid, cw, cres, cwb, peer>>
nvars == <<cst, cclosed, rst, c2s, s2c>>
vars == <<umask, fs, fslog, svars, cvars, nvars>>

NewPcs == {"new_remove", "new_bind", "new_chmod"}
UpPcs == {"idle", "accept", "read", "process", "write"}

\* the listener exists from bind until the value holding it is dropped
Listening(s) == spc[s] \in {"new_chmod"} \cup UpPcs

NoFile == [kind |-> "none", owner |-> 0, mode |-> 0]
StaleFile == [kind |-> "stale", owner |-> 0, mode |-> SOCKET_MODE]

NoOps == [accept |-> 0, read |-> 0, decode |-> 0, process |-> 0, write |-> 0]
Event(e, c, n, k, cmd, resp) ==
    [e |-> e, c |-> c, n |-> n, k |-> k, cmd |-> cmd, resp |-> resp]
Ev(e, c) == Event(e, c, 0, "", NoCommand, NoResponse)
FsEvent(s, op, ok) == [s |-> s, op |-> op, ok |-> ok]

Payload(n) == [k \in 1..n |-> 97]
\* the shortest payload whose Print command no longer fits the read buffer
OversizedLen == BUFFER_SIZE - 12 + 1
Oversized == PrintCommand(Payload(OversizedLen))
\* the commands the clients send, by name
CommandTable ==
    [push |-> Push(1), pushmax |-> Push(MaxValue), add |-> Add(1, MaxValue),
     ack |-> PrintCommand(<<>>), big |-> Oversized]
\* what each client may send: the first two clients between them every kind
\* of command, any further client the shortest one
CommandsOf ==
    [i \in Clients |->
        CASE i = 1 -> {"push", "big"}
          [] i = 2 -> {"pushmax", "add"}
          [] OTHER -> {"ack"}]
Umasks == {18}
Users == {"owner"}

\* The state before any IpcServer::new and any client_send: the servers of
\* `live` are going to be constructed, client i sends a command of cmds[i].
InitWith(live, cmds, files, umasks, users) ==
    /\ umask \in umasks
    /\ fs \in files
    /\ fslog = <<>>
    /\ spc = [s \in Servers |-> IF s \in live THEN "init" ELSE "off"]
    /\ backlog = [s \in Servers |-> <<>>]
    /\ ready = [s \in Servers |-> FALSE]
    /\ cur = [s \in Servers |-> 0]
    /\ command = [s \in Servers |-> NoCommand]
    /\ response = [s \in Servers |-> NoResponse]
    /\ wpos = [s \in Servers |-> 0]
    /\ context = [s \in Servers |-> <<>>]
    /\ ret = [s \in Servers |-> "none"]
    /\ why = [s \in Servers |-> "none"]
    /\ log = [s \in Servers |-> <<>>]
    /\ ops = [i \in Clients |-> NoOps]
    /\ cpc = [i \in Clients |-> "start"]
    /\ ccmd \in {f \in [Clients -> DOMAIN CommandTable] : \A i \in Clients : f[i] \in cmds[i]}
    /\ cuid \in {f \in [Clients -> UNION {users[i] : i \in Clients}] :
                    \A i \in Clients : f[i] \in users[i]}
    /\ cw = [i \in Clients |-> 0]
    /\ cres = [i \in Clients |-> [kind |-> "none", v |-> NoResponse]]
    /\ cwb = [i \in Clients |-> FALSE]
    /\ peer = [i \in Clients |-> 0]
    /\ cst = [i \in Clients |-> "none"]
    /\ cclosed = [i \in Clients |-> FALSE]
    /\ rst = [i \in Clients |-> FALSE]
    /\ c2s = [i \in Clients |-> <<>>]
    /\ s2c = [i \in Clients |-> <<>>]

\* the same, every client running as the user the servers run as
InitOf(live, cmds, files) ==
    InitWith(live, cmds, files, Umasks, [i \in Clients |-> Users])

\* one server, started where a previous run has left its socket file
Init == InitOf({1}, CommandsOf, {StaleFile})

\* ------------------------------------------------------------ IpcServer::new
\* mutant: the socket of a listening server is left in place
NewExistsKeepLive(s) ==
    /\ spc[s] = "init"
    /\ spc' = [spc EXCEPT ![s] = IF fs.kind = "stale" THEN "new_remove" ELSE "new_bind"]
    /\ fslog' = Append(fslog, FsEvent(s, "exists", fs.kind # "none"))
    /\ UNCHANGED <<umask, fs, backlog, ready, cur, command, response, wpos, context,
                   ret, why, log, ops, cvars, nvars>>

\* Path::new(socket_path).exists()
NewExists(s) ==
    /\ spc[s] = "init"
    /\ spc' = [spc EXCEPT ![s] = IF fs.kind # "none" THEN "new_remove" ELSE "new_bind"]
    /\ fslog' = Append(fslog, FsEvent(s, "exists", fs.kind # "none"))
    /\ UNCHANGED <<umask, fs, backlog, ready, cur, command, response, wpos, context,
                   ret, why, log, ops, cvars, nvars>>

\* remove_file(socket_path)?
NewRemove(s) ==
    /\ spc[s] = "new_remove"
    /\ spc' = [spc EXCEPT ![s] = IF fs.kind # "none" THEN "new_bind" ELSE "failed"]
    /\ fs' = NoFile
    /\ fslog' = Append(fslog, FsEvent(s, "remove", fs.kind # "none"))
    /\ UNCHANGED <<umask, backlog, ready, cur, command, response, wpos, context,
                   ret, why, log, ops, cvars, nvars>>

\* UnixListener::bind(socket_path)?
NewBind(s) ==
    /\ spc[s] = "new_bind"
    /\ spc' = [spc EXCEPT ![s] = IF fs.kind = "none" THEN "new_chmod" ELSE "failed"]
    /\ fs' = IF fs.kind = "none"
             THEN [kind |-> "sock", owner |-> s, mode |-> 511 - umask]
             ELSE fs
    /\ fslog' = Append(fslog, FsEvent(s, "bind", fs.kind = "none"))
    /\ UNCHANGED <<umask, backlog, ready, cur, command, response, wpos, context,
                   ret, why, log, ops, cvars, nvars>>

\* mutant: the mode that bind gave the file is left as it is
SetPermissionsSkipped(file) == file

\* what set_permissions(socket_path, Permissions::from_mode(0o600)) makes of
\* the file at the path
SetPermissions(file) == [file EXCEPT !.mode = SOCKET_MODE]

\* set_permissions(socket_path, Permissions::from_mode(0o600))?, then
\* Poll::new, Events::with_capacity and register(listener, Token(0), READABLE).
\* On Err the listener is dropped and its pending connections are reset.
NewChmod(s) ==
    /\ spc[s] = "new_chmod"
    /\ fslog' = Append(fslog, FsEvent(s, "chmod", fs.kind # "none"))
    /\ IF fs.kind # "none"
       THEN /\ fs' = SetPermissions(fs)
            /\ spc' = [spc EXCEPT ![s] = "idle"]
            /\ ready' = [ready EXCEPT ![s] = backlog[s] # <<>>]
            /\ UNCHANGED <<backlog, cst, rst>>
       ELSE /\ spc' = [spc EXCEPT ![s] = "failed"]
            /\ backlog' = [backlog EXCEPT ![s] = <<>>]
            /\ cst' = [i \in Clients |->
                         IF peer[i] = s /\ cst[i] = "backlog" THEN "closed" ELSE cst[i]]
            /\ rst' = [i \in Clients |->
                         IF peer[i] = s /\ cst[i] = "backlog" THEN TRUE ELSE rst[i]]
            /\ UNCHANGED <<fs, ready>>
    /\ UNCHANGED <<umask, cur, command, response, wpos, context, ret, why, log, ops,
                   cvars, cclosed, c2s, s2c>>

\* ------------------------------------------------- handle_new_messages
\* mutant: the accepted stream outlives the loop iteration
KeepStream(i, unread) == UNCHANGED <<cst, rst>>

\* the accepted stream leaves its scope: the server's end is closed, and a
\* close with unread bytes resets the connection
DropStream(i, unread) ==
    /\ cst' = [cst EXCEPT ![i] = "closed"]
    /\ rst' = [rst EXCEPT ![i] = unread # <<>>]

\* how handle_new_messages goes on after each outcome inside the accept loop
AcceptWouldBlockExit == [pc |-> "idle", ret |-> "Ok", why |-> "would_block"]
\* mutant: an accept error is propagated to the caller
AcceptErrorFatal == [pc |-> "idle", ret |-> "Err", why |-> "accept_err"]
AcceptErrorExit == [pc |-> "idle", ret |-> "Ok", why |-> "accept_err"]
\* mutant: a read error is propagated to the caller
ReadErrorFatal == [pc |-> "idle", ret |-> "Err", why |-> "read_err"]
ReadErrorExit == [pc |-> "idle", ret |-> "Ok", why |-> "read_err"]
\* mutant: a decode error is logged and the loop goes on
DecodeErrorContinue == [pc |-> "accept", ret |-> "none", why |-> "decode_err"]
DecodeErrorExit == [pc |-> "idle", ret |-> "Err", why |-> "decode_err"]
WriteErrorExit == [pc |-> "idle", ret |-> "Err", why |-> "write_err"]

\* mutant: the response goes to the connection accepted next
WriteTargetPending(s) == IF backlog[s] # <<>> THEN Head(backlog[s]) ELSE cur[s]

\* the stream process_command writes the response to
WriteTarget(s) == cur[s]

\* self.poll.poll(&mut self.events, None)?: the application calls
\* handle_new_messages and the call blocks until Token(0) is ready.  The
\* registration is edge-triggered: the event is consumed by this return.
Poll(s) ==
    /\ spc[s] = "idle"
    /\ ready[s]
    /\ spc' = [spc EXCEPT ![s] = "accept"]
    /\ ready' = [ready EXCEPT ![s] = FALSE]
    /\ ret' = [ret EXCEPT ![s] = "none"]
    /\ why' = [why EXCEPT ![s] = "none"]
    /\ log' = [log EXCEPT ![s] = Append(@, Ev("poll", 0))]
    /\ UNCHANGED <<umask, fs, fslog, backlog, cur, command, response, wpos, context,
                   ops, cvars, nvars>>

\* self.listener.accept(): Ok((stream, _)), or Err(WouldBlock) => break
Accept(s) ==
    /\ spc[s] = "accept"
    /\ IF backlog[s] = <<>>
       THEN /\ spc' = [spc EXCEPT ![s] = AcceptWouldBlockExit.pc]
            /\ ret' = [ret EXCEPT ![s] = AcceptWouldBlockExit.ret]
            /\ why' = [why EXCEPT ![s] = AcceptWouldBlockExit.why]
            /\ UNCHANGED <<backlog, cur, cst, log, ops>>
       ELSE /\ spc' = [spc EXCEPT ![s] = "read"]
            /\ cur' = [cur EXCEPT ![s] = Head(backlog[s])]
            /\ backlog' = [backlog EXCEPT ![s] = Tail(backlog[s])]
            /\ cst' = [cst EXCEPT ![Head(backlog[s])] = "open"]
            /\ log' = [log EXCEPT ![s] = Append(@, Ev("accept", Head(backlog[s])))]
            /\ ops' = [ops EXCEPT ![Head(backlog[s])].accept = @ + 1]
            /\ UNCHANGED <<ret, why>>
    /\ UNCHANGED <<umask, fs, fslog, ready, command, response, wpos, context,
                   cvars, cclosed, rst, c2s, s2c>>

\* self.listener.accept() fails with another error (no descriptor left, no
\* memory): logged, break.  The pending connections stay in the queue.
AcceptError(s) ==
    /\ spc[s] = "accept"
    /\ spc' = [spc EXCEPT ![s] = AcceptErrorExit.pc]
    /\ ret' = [ret EXCEPT ![s] = AcceptErrorExit.ret]
    /\ why' = [why EXCEPT ![s] = AcceptErrorExit.why]
    /\ log' = [log EXCEPT ![s] = Append(@, Ev("accept_err", 0))]
    /\ UNCHANGED <<umask, fs, fslog, backlog, ready, cur, command, response, wpos,
                   context, ops, cvars, nvars>>

\* mutant: a read of no bytes is not decoded, the connection is skipped
DecodesNonEmpty(bytes) == bytes # <<>>

\* whether the arm Ok(bytes_read) hands &buffer[..bytes_read] to the decoder:
\* always, whatever bytes_read is
Decodes(bytes) == TRUE

\* stream.read(&mut buffer) and bincode::deserialize(&buffer[..bytes_read]).
\* A read with nothing to read fails with WouldBlock unless the client has
\* closed its end, where it returns Ok(0).
Read(s) ==
    /\ spc[s] = "read"
    /\ LET i == cur[s]
           bytes == Take(c2s[i], BUFFER_SIZE)
           rest == Drop(c2s[i], BUFFER_SIZE)
           d == DeserializeCommand(bytes)
       IN  IF c2s[i] = <<>> /\ ~cclosed[i]
           THEN /\ log' = [log EXCEPT ![s] =
                        @ \o <<Event("read_err", i, 0, "WouldBlock", NoCommand, NoResponse),
                               Ev("drop", i)>>]
                /\ DropStream(i, rest)
                /\ spc' = [spc EXCEPT ![s] = ReadErrorExit.pc]
                /\ ret' = [ret EXCEPT ![s] = ReadErrorExit.ret]
                /\ why' = [why EXCEPT ![s] = ReadErrorExit.why]
                /\ cur' = [cur EXCEPT ![s] = 0]
                /\ ops' = [ops EXCEPT ![i].read = @ + 1]
                /\ UNCHANGED <<command, c2s>>
           ELSE /\ c2s' = [c2s EXCEPT ![i] = rest]
                /\ ops' = [ops EXCEPT ![i].read = @ + 1,
                                       ![i].decode = IF Decodes(bytes) THEN @ + 1 ELSE @]
                /\ IF ~Decodes(bytes)
                   THEN /\ log' = [log EXCEPT ![s] =
                                @ \o <<Event("read", i, Len(bytes), "", NoCommand, NoResponse),
                                       Ev("drop", i)>>]
                        /\ DropStream(i, rest)
                        /\ spc' = [spc EXCEPT ![s] = "accept"]
                        /\ cur' = [cur EXCEPT ![s] = 0]
                        /\ UNCHANGED <<command, ret, why>>
                   ELSE IF d.ok
                   THEN /\ log' = [log EXCEPT ![s] =
                                @ \o <<Event("read", i, Len(bytes), "", NoCommand, NoResponse),
                                       Event("decode", i, 0, "", d.v, NoResponse)>>]
                        /\ command' = [command EXCEPT ![s] = d.v]
                        /\ spc' = [spc EXCEPT ![s] = "process"]
                        /\ UNCHANGED <<cur, ret, why, cst, rst>>
                   ELSE /\ log' = [log EXCEPT ![s] =
                                @ \o <<Event("read", i, Len(bytes), "", NoCommand, NoResponse),
                                       Ev("decode_err", i), Ev("drop", i)>>]
                        /\ DropStream(i, rest)
                        /\ spc' = [spc EXCEPT ![s] = DecodeErrorExit.pc]
                        /\ ret' = [ret EXCEPT ![s] = DecodeErrorExit.ret]
                        /\ why' = [why EXCEPT ![s] = DecodeErrorExit.why]
                        /\ cur' = [cur EXCEPT ![s] = 0]
                        /\ UNCHANGED command
    /\ UNCHANGED <<umask, fs, fslog, backlog, ready, response, wpos, context,
                   cvars, cclosed, s2c>>

\* mutant: the server notes every command it dispatches in the context
CallProcessNoting(s) ==
    [resp |-> process(command[s], context[s]).resp,
     context |-> Append(process(command[s], context[s]).context, 0)]

\* command.process(context), context being the caller's &mut
CallProcess(s) == process(command[s], context[s])

\* process_command: let response = command.process(context)
Process(s) ==
    /\ spc[s] = "process"
    /\ LET r == CallProcess(s)
       IN  /\ response' = [response EXCEPT ![s] = r.resp]
           /\ context' = [context EXCEPT ![s] = r.context]
           /\ log' = [log EXCEPT ![s] =
                        Append(@, Event("process", cur[s], 0, "", command[s], r.resp))]
    /\ command' = [command EXCEPT ![s] = NoCommand]
    /\ ops' = [ops EXCEPT ![cur[s]].process = @ + 1]
    /\ wpos' = [wpos EXCEPT ![s] = 0]
    /\ spc' = [spc EXCEPT ![s] = "write"]
    /\ UNCHANGED <<umask, fs, fslog, backlog, ready, cur, ret, why, cvars, nvars>>

\* mutant: a failed write takes the command's effect back
ContextRolledBack(ctx, before) == before

\* the context when process_command returns the write's error (e => return
\* e): as process() left it; `before` is the context as it was before process()
ContextOnWriteError(ctx, before) == ctx

\* process_command: one write of bincode::serialize_into(&mut *stream, &response).
\* It fails with BrokenPipe when the client has closed its end and with
\* WouldBlock when the socket's send buffer is full.
Write(s) ==
    /\ spc[s] = "write"
    /\ \E full \in BOOLEAN :
         LET i == WriteTarget(s)
             chunks == SerializeResponse(response[s])
             k == wpos[s] + 1
             raw == IF cclosed[i] THEN "BrokenPipe"
                    ELSE IF full THEN "WouldBlock" ELSE "Ok"
             begun == IF wpos[s] = 0 THEN <<Ev("write", i)>> ELSE <<>>
             failed == raw # "Ok" /\ ~would_block(SerializeErrorKind(raw))
             before == IF response[s].op = "Push"
                       THEN SubSeq(context[s], 1, Len(context[s]) - 1)
                       ELSE context[s]
         IN  /\ context' = [context EXCEPT ![s] =
                              IF failed THEN ContextOnWriteError(@, before) ELSE @]
             /\ ops' = [ops EXCEPT ![i].write = IF wpos[s] = 0 THEN @ + 1 ELSE @]
             /\ IF raw = "Ok"
                 THEN /\ s2c' = [s2c EXCEPT ![i] = @ \o chunks[k]]
                      /\ IF k = Len(chunks)
                         THEN /\ log' = [log EXCEPT ![s] =
                                      @ \o begun \o <<Ev("write_ok", i), Ev("drop", cur[s])>>]
                              /\ DropStream(cur[s], c2s[cur[s]])
                              /\ spc' = [spc EXCEPT ![s] = "accept"]
                              /\ cur' = [cur EXCEPT ![s] = 0]
                              /\ response' = [response EXCEPT ![s] = NoResponse]
                              /\ wpos' = [wpos EXCEPT ![s] = 0]
                         ELSE /\ log' = [log EXCEPT ![s] = @ \o begun]
                              /\ wpos' = [wpos EXCEPT ![s] = k]
                              /\ UNCHANGED <<spc, cur, response, cst, rst>>
                      /\ UNCHANGED <<ret, why>>
                 ELSE /\ UNCHANGED s2c
                      /\ IF would_block(SerializeErrorKind(raw))
                         THEN /\ log' = [log EXCEPT ![s] = @ \o begun]
                              /\ wpos' = [wpos EXCEPT ![s] = 0]
                              /\ UNCHANGED <<spc, cur, response, ret, why, cst, rst>>
                         ELSE /\ log' = [log EXCEPT ![s] =
                                      @ \o begun
                                        \o <<Event("write_err", i, 0, raw, NoCommand, NoResponse),
                                             Ev("drop", cur[s])>>]
                              /\ DropStream(cur[s], c2s[cur[s]])
                              /\ spc' = [spc EXCEPT ![s] = WriteErrorExit.pc]
                              /\ ret' = [ret EXCEPT ![s] = WriteErrorExit.ret]
                              /\ why' = [why EXCEPT ![s] = WriteErrorExit.why]
                              /\ cur' = [cur EXCEPT ![s] = 0]
                              /\ response' = [response EXCEPT ![s] = NoResponse]
                              /\ wpos' = [wpos EXCEPT ![s] = 0]
    /\ UNCHANGED <<umask, fs, fslog, backlog, ready, command,
                   cvars, cclosed, c2s>>

\* ------------------------------------------------------------- client_send
\* the command client i passes to client_send
Sent(i) == CommandTable[ccmd[i]]

\* connect(2) needs write permission on the socket file: the owner's, the
\* group's or the others' write bit, by who asks
MayConnect(user, mode) ==
    CASE user = "owner" -> (mode \div 128) % 2 = 1
      [] user = "group" -> (mode \div 16) % 2 = 1
      [] OTHER -> (mode \div 2) % 2 = 1

\* what UnixStream::connect(socket_path) returns to client i
ConnectResult(i) ==
    IF fs.kind = "none" THEN "NotFound"
    ELSE IF ~MayConnect(cuid[i], fs.mode) THEN "PermissionDenied"
    ELSE IF fs.kind = "sock" /\ Listening(fs.owner) THEN "Ok"
    ELSE "ConnectionRefused"

\* UnixStream::connect(socket_path).unwrap()
Connect(i) ==
    /\ cpc[i] = "start"
    /\ LET r == ConnectResult(i)
           s == fs.owner
       IN  IF r = "Ok"
           THEN /\ cpc' = [cpc EXCEPT ![i] = "write"]
                /\ peer' = [peer EXCEPT ![i] = s]
                /\ cst' = [cst EXCEPT ![i] = "backlog"]
                /\ backlog' = [backlog EXCEPT ![s] = Append(@, i)]
                /\ ready' = [ready EXCEPT ![s] = @ \/ spc[s] \in UpPcs]
                /\ UNCHANGED cres
           ELSE /\ cpc' = [cpc EXCEPT ![i] = "panic"]
                /\ cres' = [cres EXCEPT ![i] = [kind |-> r, v |-> NoResponse]]
                /\ UNCHANGED <<peer, cst, backlog, ready>>
    /\ UNCHANGED <<umask, fs, fslog, spc, cur, command, response, wpos, context,
                   ret, why, log, ops, ccmd, cuid, cw, cwb, cclosed, rst, c2s, s2c>>

\* bincode::serialize_into(&mut stream, command).unwrap(): one write of it.
\* A write to a connection whose other end is closed fails with BrokenPipe.
ClientWrite(i) ==
    /\ cpc[i] = "write"
    /\ LET chunks == SerializeCommand(Sent(i))
           k == cw[i] + 1
       IN  IF cst[i] = "closed"
           THEN /\ cpc' = [cpc EXCEPT ![i] = "panic"]
                /\ cclosed' = [cclosed EXCEPT ![i] = TRUE]
                /\ UNCHANGED <<cw, c2s>>
           ELSE /\ c2s' = [c2s EXCEPT ![i] = @ \o chunks[k]]
                /\ cw' = [cw EXCEPT ![i] = k]
                /\ cpc' = [cpc EXCEPT ![i] = IF k = Len(chunks) THEN "read" ELSE "write"]
                /\ UNCHANGED cclosed
    /\ UNCHANGED <<umask, fs, fslog, svars, ccmd, cuid, cres, cwb, peer,
                   cst, rst, s2c>>

\* stream.read(&mut buffer) in the client's loop
ClientReadResult(i) ==
    IF s2c[i] # <<>> THEN [kind |-> "Ok", bytes |-> Take(s2c[i], BUFFER_SIZE)]
    ELSE IF cst[i] # "closed" THEN [kind |-> "WouldBlock", bytes |-> <<>>]
    ELSE IF rst[i] THEN [kind |-> "ConnectionReset", bytes |-> <<>>]
    ELSE [kind |-> "Ok", bytes |-> <<>>]

\* mutant: client_send gives up on the first WouldBlock
AfterWouldBlockGiveUp == "done"

\* where client_send goes after a read that failed with WouldBlock
AfterWouldBlock == "read"

\* mutant: client_send reads again after a read error
AfterReadErrorRetry == "read"

\* where client_send goes after a read error other than would-block: return
AfterReadError == "done"

\* mutant: client_send reads again when the bytes do not decode
AfterParseFailureRetry == "read"

\* where client_send goes after bytes that do not decode: return
AfterParseFailure == "done"

\* one iteration of the loop of client_send
ClientRead(i) ==
    /\ cpc[i] = "read"
    /\ LET r == ClientReadResult(i)
           d == DeserializeResponse(r.bytes)
       IN  CASE r.kind = "Ok" ->
                  /\ cres' = [cres EXCEPT ![i] =
                               IF d.ok THEN [kind |-> "response", v |-> d.v]
                               ELSE [kind |-> "parse_failed", v |-> NoResponse]]
                  /\ s2c' = [s2c EXCEPT ![i] = Drop(@, BUFFER_SIZE)]
                  /\ cpc' = [cpc EXCEPT ![i] = IF d.ok THEN "done" ELSE AfterParseFailure]
                  /\ cclosed' = [cclosed EXCEPT ![i] = d.ok \/ AfterParseFailure = "done"]
                  /\ UNCHANGED cwb
             [] r.kind = "WouldBlock" ->
                  /\ cwb' = [cwb EXCEPT ![i] = TRUE]
                  /\ cpc' = [cpc EXCEPT ![i] = AfterWouldBlock]
                  /\ cclosed' = [cclosed EXCEPT ![i] = AfterWouldBlock = "done"]
                  /\ UNCHANGED <<cres, s2c>>
             [] OTHER ->
                  /\ cres' = [cres EXCEPT ![i] = [kind |-> "read_failed", v |-> NoResponse]]
                  /\ cpc' = [cpc EXCEPT ![i] = AfterReadError]
                  /\ cclosed' = [cclosed EXCEPT ![i] = AfterReadError = "done"]
                  /\ UNCHANGED <<cwb, s2c>>
    /\ UNCHANGED <<umask, fs, fslog, svars, ccmd, cuid, cw, peer, cst, rst, c2s>>

\* The process running client_send is killed between its connect and its
\* return: its end of the connection is closed with whatever it had written.
ClientKilled(i) ==
    /\ cpc[i] \in {"write", "read"}
    /\ cpc' = [cpc EXCEPT ![i] = "killed"]
    /\ cclosed' = [cclosed EXCEPT ![i] = TRUE]
    /\ UNCHANGED <<umask, fs, fslog, svars, ccmd, cuid, cw, cres, cwb, peer,
                   cst, rst, c2s, s2c>>

\* ----------------------------------------------------------- specification
Next ==
    \/ \E s \in Servers : NewExists(s)
    \/ \E s \in Servers : NewRemove(s)
    \/ \E s \in Servers : NewBind(s)
    \/ \E s \in Servers : NewChmod(s)
    \/ \E s \in Servers : Poll(s)
    \/ \E s \in Servers : Accept(s)
    \/ \E s \in Servers : AcceptError(s)
    \/ \E s \in Servers : Read(s)
    \/ \E s \in Servers : Process(s)
    \/ \E s \in Servers : Write(s)
    \/ \E i \in Clients : Connect(i)
    \/ \E i \in Clients : ClientWrite(i)
    \/ \E i \in Clients : ClientRead(i)

Spec == Init /\ [][Next]_vars

\* two servers constructed on the same path, one command
InitRebind == InitOf({1, 2}, [i \in Clients |-> {"push"}], {NoFile, StaleFile})
SpecRebind == InitRebind /\ [][Next]_vars

\* The application calls handle_new_messages in a loop for ever and every
\* call made returns or blocks in poll; every client_send started runs on.
\* Nothing makes an accept fail, so AcceptError has no fairness.
Fairness ==
    /\ \A s \in Servers :
           /\ WF_vars(NewExists(s)) /\ WF_vars(NewRemove(s))
           /\ WF_vars(NewBind(s)) /\ WF_vars(NewChmod(s))
           /\ WF_vars(Poll(s)) /\ WF_vars(Accept(s)) /\ WF_vars(Read(s))
           /\ WF_vars(Process(s)) /\ WF_vars(Write(s))
    /\ \A i \in Clients :
           /\ WF_vars(Connect(i)) /\ WF_vars(ClientWrite(i)) /\ WF_vars(ClientRead(i))
\* one server; a command too long for the buffer, a Push, and short ones
LiveCommandsOf ==
    [i \in Clients |->
        CASE i = 1 -> {"big"}
          [] i = 2 -> {"pushmax"}
          [] OTHER -> {"ack"}]
InitLive == InitOf({1}, LiveCommandsOf, {StaleFile})
SpecLive == InitLive /\ [][Next]_vars /\ Fairness

\* one server, clients that may die before they have written their command
NextKilled ==
    \/ Next
    \/ \E i \in Clients : ClientKilled(i)
KilledCommandsOf ==
    [i \in Clients |->
        CASE i = 1 -> {"push"}
          [] i = 2 -> {"pushmax"}
          [] OTHER -> {"ack"}]
InitKilled == InitOf({1}, KilledCommandsOf, {StaleFile})
SpecKilled == InitKilled /\ [][NextKilled]_vars

\* one server; two clients may send the same command, one that leaves the
\* context alone
ReadOnlyCommandsOf ==
    [i \in Clients |->
        CASE i = 1 -> {"add"}
          [] i = 2 -> {"add", "push"}
          [] OTHER -> {"ack"}]
InitReadOnly == InitOf({1}, ReadOnlyCommandsOf, {StaleFile})
SpecReadOnly == InitReadOnly /\ [][Next]_vars

\* two servers constructed on the same path under either umask, the first
\* client running as the servers' user and every other one as somebody else
InitPerm ==
    InitWith({1, 2}, [i \in Clients |-> {"push"}], {NoFile}, {0, 18},
             [i \in Clients |-> IF i = 1 THEN {"owner"} ELSE {"group", "other"}])
SpecPerm == InitPerm /\ [][Next]_vars

\* ------------------------------------------------------------------ claims
Events(s, e, i) == {k \in 1..Len(log[s]) : log[s][k].e = e /\ log[s][k].c = i}
Count(s, e, i) == Cardinality(Events(s, e, i))
Encoded(cmd) == Flatten(SerializeCommand(cmd))
RECURSIVE TotalLen(_)
TotalLen(chunks) ==
    IF chunks = <<>> THEN 0 ELSE Len(Head(chunks)) + TotalLen(Tail(chunks))
Fits(cmd) == TotalLen(SerializeCommand(cmd)) <= BUFFER_SIZE
Finished(i) == cpc[i] \in {"done", "panic"}

\* C1: every client_send of a command that fits the buffer, to a constructed
\* server, ends with the client having read the response of process() on
\* exactly that command, process() having run once for it.
C1_RoundTrip ==
    \A i \in Clients :
        (Finished(i) /\ peer[i] # 0 /\ Fits(Sent(i)))
            => /\ cres[i].kind = "response"
               /\ Count(peer[i], "process", i) = 1
               /\ \A k \in Events(peer[i], "process", i) :
                      /\ log[peer[i]][k].cmd = Sent(i)
                      /\ log[peer[i]][k].resp = cres[i].v

\* C2: the server reads at most once from an accepted connection, decodes at
\* most one command from it, calls process() at most once for it and writes
\* at most one response to it.
C2_AtMostOnce ==
    \A i \in Clients :
        /\ ops[i].accept <= 1
        /\ ops[i].read <= 1
        /\ ops[i].decode <= 1
        /\ ops[i].process <= 1
        /\ ops[i].write <= 1
        /\ \A s \in Servers \ {peer[i]} : \A k \in 1..Len(log[s]) : log[s][k].c # i

C2_Witness ==
    \E i \in Clients :
        /\ ops[i] = [accept |-> 1, read |-> 1, decode |-> 1, process |-> 1, write |-> 1]
        /\ Count(peer[i], "write_ok", i) = 1
        /\ cres[i].kind = "response"

\* C3: a return of Ok(()) never leaves a pending connection unaccepted: the
\* accept loop ended with accept signalling would-block (an accept error, the
\* other documented way out, aside).
C3_OkMeansDrained ==
    [][\A s \in Servers :
          (spc[s] # "idle" /\ spc'[s] = "idle" /\ ret'[s] = "Ok"
             /\ why'[s] # "accept_err")
              => backlog'[s] = <<>>]_vars

\* C4: a response write that hits would-block is retried and never makes
\* process_command return Err.
C4_WouldBlockRetried ==
    \A s \in Servers : \A k \in 1..Len(log[s]) :
        log[s][k].e = "write_err" => ~would_block(log[s][k].k)

\* C5: a response is written only to the connection whose command produced
\* it, and a client that decodes a response has the result of process() on
\* its own command.
C5_OwnResponse ==
    /\ \A s \in Servers : \A k \in 1..Len(log[s]) :
           log[s][k].e = "write"
               => /\ k > 1
                  /\ log[s][k - 1].e = "process"
                  /\ log[s][k - 1].c = log[s][k].c
    /\ \A i \in Clients :
           /\ s2c[i] # <<>> => Count(peer[i], "process", i) = 1
           /\ cres[i].kind = "response"
               => \E k \in Events(peer[i], "process", i) :
                      /\ log[peer[i]][k].cmd = Sent(i)
                      /\ log[peer[i]][k].resp = cres[i].v

\* two clients with different commands, pending together, both answered
C5_Witness ==
    \E i, j \in Clients :
        /\ Sent(i) # Sent(j)
        /\ process(Sent(i), <<>>).resp # process(Sent(j), <<>>).resp
        /\ cres[i].kind = "response" /\ cres[j].kind = "response"
        /\ peer[i] = peer[j]
        /\ Count(peer[i], "poll", 0) = 1

\* C6: a decode failure makes handle_new_messages return Err at once:
\* process() is not called for the connection, nothing is written to it, and
\* nothing more is accepted in the invocation.
C6_DecodeErrorIsFatal ==
    /\ \A s \in Servers :
           why[s] = "decode_err"
               => /\ ret[s] = "Err" /\ spc[s] = "idle"
                  /\ Len(log[s]) >= 2
                  /\ Last(log[s]).e = "drop"
                  /\ log[s][Len(log[s]) - 1] = Ev("decode_err", Last(log[s]).c)
    /\ \A s \in Servers : \A k \in 1..Len(log[s]) :
           log[s][k].e = "decode_err"
               => /\ Count(s, "process", log[s][k].c) = 0
                  /\ Count(s, "write", log[s][k].c) = 0
                  /\ s2c[log[s][k].c] = <<>>
                  /\ cres[log[s][k].c].kind # "response"

\* the invocation ended on a decode failure with a connection still pending
C6_Witness ==
    \E s \in Servers :
        /\ why[s] = "decode_err" /\ ret[s] = "Err"
        /\ backlog[s] # <<>>
        /\ cpc[Head(backlog[s])] = "read"

\* C7: process() is only ever called with the command the client encoded; a
\* command longer than the read buffer is read truncated, fails to decode and
\* is never dispatched.
C7_NoTruncatedDispatch ==
    /\ \A s \in Servers : \A k \in 1..Len(log[s]) :
           log[s][k].e \in {"decode", "process"}
               => log[s][k].cmd = Sent(log[s][k].c)
    /\ \A i \in Clients :
           (peer[i] # 0 /\ ~Fits(Sent(i)))
               => /\ Count(peer[i], "decode", i) = 0
                  /\ Count(peer[i], "process", i) = 0
                  /\ (Count(peer[i], "read", i) > 0
                         => Count(peer[i], "decode_err", i) = 1)

\* the whole oversized command was written, and the read filled the buffer
C7_Witness ==
    \E s \in Servers : \E k \in 1..Len(log[s]) :
        /\ log[s][k].e = "read" /\ log[s][k].n = BUFFER_SIZE
        /\ ~Fits(Sent(log[s][k].c))
        /\ cw[log[s][k].c] = Len(SerializeCommand(Sent(log[s][k].c)))
        /\ ret[s] = "Err" /\ why[s] = "decode_err"

\* the values pushed by the process() calls of a log, in order
RECURSIVE Pushed(_)
Pushed(events) ==
    IF events = <<>> THEN <<>>
    ELSE (IF Head(events).e = "process" /\ Head(events).cmd.op = "Push"
          THEN <<Head(events).cmd.a>> ELSE <<>>) \o Pushed(Tail(events))

\* C8: connections are handled one at a time and in accept order: everything
\* done to a connection lies between its accept and its drop, the next accept
\* comes after the drop, at most one accepted connection is open, and the
\* context holds the mutations in accept order.
C8_Sequential ==
    \A s \in Servers :
        /\ Cardinality({i \in Clients : peer[i] = s /\ cst[i] = "open"}) <= 1
        /\ \A k \in 1..Len(log[s]) :
               CASE log[s][k].e = "poll" ->
                      k = 1 \/ log[s][k - 1].e \in {"poll", "drop", "accept_err"}
                 [] log[s][k].e \in {"accept", "accept_err"} ->
                      k > 1 /\ log[s][k - 1].e \in {"poll", "drop"}
                 [] OTHER ->
                      /\ k > 1
                      /\ log[s][k - 1].c = log[s][k].c
                      /\ log[s][k - 1].e # "drop"
        /\ context[s] = Pushed(log[s])

\* two connections handled in one invocation, both mutating the context
C8_Witness ==
    \E s \in Servers :
        /\ Count(s, "poll", 0) = 1
        /\ Len(context[s]) = 2
        /\ context[s][1] # context[s][2]

\* C9: client_send returns only after a read returned Ok or failed with an
\* error other than would-block; while the server has neither written to the
\* connection nor closed it, client_send has not returned.
C9_ClientWaits ==
    \A i \in Clients :
        /\ cpc[i] = "done"
            => /\ cres[i].kind \in {"response", "parse_failed", "read_failed"}
               /\ cclosed[i]
        /\ (Finished(i) /\ peer[i] # 0)
            => \/ cst[i] = "closed"
               \/ Count(peer[i], "write", i) > 0

\* the client slept on would-block at least once and then got its answer
C9_Witness ==
    \E i \in Clients :
        cwb[i] /\ cpc[i] = "done" /\ cres[i].kind = "response"

\* the file system calls of server s, in order
OwnCalls(s) == SelectSeq(fslog, LAMBDA e : e.s = s)
SawFile(s) == FsEvent(s, "exists", TRUE) \in {fslog[k] : k \in 1..Len(fslog)}
\* another server touched the path while s was inside IpcServer::new
Raced(s) ==
    LET own == {k \in 1..Len(fslog) : fslog[k].s = s}
        first == CHOOSE k \in own : \A j \in own : k <= j
        last == IF spc[s] \in NewPcs THEN Len(fslog) + 1
                ELSE CHOOSE k \in own : \A j \in own : j <= k
    IN  own # {} /\ \E k \in 1..Len(fslog) : first < k /\ k < last /\ fslog[k].s # s
\* the server whose bind was the last to succeed (0: none)
Newest ==
    LET binds == {k \in 1..Len(fslog) : fslog[k].op = "bind" /\ fslog[k].ok}
    IN  IF binds = {} THEN 0
        ELSE fslog[CHOOSE k \in binds : \A j \in binds : j <= k].s
Settled == \A t \in Servers : spc[t] \notin NewPcs

\* C10: IpcServer::new that finds a file at the path, stale or the socket of
\* a running server, removes it without asking whether it is in use and, no
\* other construction interfering, succeeds with its own listener bound at
\* the path; every connect made from then on (until a later construction)
\* reaches the new server and not an earlier one.
C10_Rebind ==
    /\ [](\A s \in Servers :
             SawFile(s)
                 => /\ \/ spc[s] = "new_remove"
                       \/ Len(OwnCalls(s)) >= 2 /\ OwnCalls(s)[2].op = "remove"
                    /\ ~Raced(s)
                         => /\ spc[s] # "failed"
                            /\ \A k \in 2..Len(OwnCalls(s)) : OwnCalls(s)[k].ok
                            /\ (spc[s] \in UpPcs /\ Newest = s /\ Settled)
                                  => fs = [kind |-> "sock", owner |-> s,
                                           mode |-> SOCKET_MODE])
    /\ [][\A i \in Clients :
             (cpc[i] = "start" /\ cpc'[i] # "start" /\ Newest # 0)
                 => ((SawFile(Newest) /\ spc[Newest] \in UpPcs /\ Settled)
                        => (cpc'[i] = "write" /\ peer'[i] = Newest))]_vars

\* server 2 replaced the socket of the running server 1: a client of server
\* 1 is still connected to it, a later client was answered by server 2
C10_Witness ==
    \E i, j \in Clients :
        /\ spc[1] \in UpPcs /\ spc[2] \in UpPcs
        /\ OwnCalls(1) = <<FsEvent(1, "exists", FALSE), FsEvent(1, "bind", TRUE),
                           FsEvent(1, "chmod", TRUE)>>
        /\ SawFile(2) /\ ~Raced(2) /\ Newest = 2
        /\ peer[j] = 1 /\ cst[j] = "backlog"
        /\ peer[i] = 2 /\ cres[i].kind = "response"

\* the path holds the socket that server s bound, and s is constructed
OwnSocket(s) == fs.kind = "sock" /\ fs.owner = s /\ spc[s] \in UpPcs

\* C11: once IpcServer::new has returned Ok the server's socket file has mode
\* 0600 for as long as it is at the path, and every connect by a user other
\* than the owner is then refused with PermissionDenied; a set_permissions
\* that fails makes new return Err, and that server never handles anything.
C11_OwnerOnly ==
    /\ [](\A s \in Servers :
             /\ OwnSocket(s) => fs.mode = SOCKET_MODE
             /\ FsEvent(s, "chmod", FALSE) \in {fslog[k] : k \in 1..Len(fslog)}
                    => spc[s] = "failed" /\ log[s] = <<>> /\ backlog[s] = <<>>)
    /\ [][\A i \in Clients :
             (cpc[i] = "start" /\ cpc'[i] # "start" /\ cuid[i] # "owner"
                 /\ \E s \in Servers : OwnSocket(s))
                 => /\ cpc'[i] = "panic" /\ peer'[i] = 0
                    /\ cres'[i].kind = "PermissionDenied"
                    /\ backlog' = backlog]_vars

\* one construction failed in set_permissions, the other one succeeded; the
\* owner was answered and somebody else was refused
C11_Witness ==
    \E s, t \in Servers : \E i, j \in Clients :
        /\ FsEvent(s, "chmod", FALSE) \in {fslog[k] : k \in 1..Len(fslog)}
        /\ OwnSocket(t) /\ fs.mode = SOCKET_MODE
        /\ cuid[i] = "owner" /\ peer[i] = t /\ cres[i].kind = "response"
        /\ cuid[j] # "owner" /\ cres[j].kind = "PermissionDenied"

\* C12: an accept that fails with an error other than would-block ends the
\* invocation with Ok(()): nothing is processed, the context and the pending
\* connections are as they were, and the listener stays registered, so that
\* a later invocation accepts and serves.
C12_AcceptErrorIsNotFatal ==
    /\ [](\A s \in Servers :
             why[s] = "accept_err"
                 => /\ ret[s] = "Ok" /\ spc[s] = "idle" /\ Listening(s)
                    /\ Last(log[s]) = Ev("accept_err", 0))
    /\ [][\A s \in Servers :
             (why[s] # "accept_err" /\ why'[s] = "accept_err")
                 => /\ context'[s] = context[s] /\ backlog'[s] = backlog[s]
                    /\ ops' = ops /\ cst' = cst /\ s2c' = s2c
                    /\ log'[s] = Append(log[s], Ev("accept_err", 0))]_vars

\* after an accept error a later invocation accepted a connection and the
\* client got its response
C12_Witness ==
    \E s \in Servers : \E i \in Clients : \E j, k \in 1..Len(log[s]) :
        /\ j < k
        /\ log[s][j].e = "accept_err"
        /\ log[s][k] = Ev("accept", i)
        /\ cres[i].kind = "response" /\ peer[i] = s

\* C13: a read that returns bytes which do not decode ends client_send: it
\* has written its command once, it returns as it does after a response, and
\* it neither reads nor writes again; no call has two successful reads.
C13_DecodeFailureGivesUp ==
    /\ [](\A i \in Clients :
             cres[i].kind \in {"parse_failed", "response"}
                 => /\ cpc[i] = "done" /\ cclosed[i]
                    /\ cw[i] = Len(SerializeCommand(Sent(i))))
    /\ [][\A i \in Clients :
             cres[i].kind \in {"parse_failed", "response"}
                 => /\ cres'[i] = cres[i] /\ cpc'[i] = cpc[i] /\ cw'[i] = cw[i]
                    /\ Len(c2s'[i]) <= Len(c2s[i])
                    /\ s2c'[i] = s2c[i]]_vars

\* the client read the first field of a response whose second field the
\* server had not written yet
C13_Witness ==
    \E i \in Clients :
        /\ cres[i].kind = "parse_failed"
        /\ peer[i] # 0
        /\ Count(peer[i], "write", i) = 1
        /\ cur[peer[i]] = i /\ wpos[peer[i]] = 1

\* the values a context can hold here
Contexts == UNION {[1..n -> 0..MaxValue] : n \in 0..NumClients}
\* process() on cmd leaves every context as it was
ReadOnly(cmd) == \A ctx \in Contexts : process(cmd, ctx).context = ctx

C15_EmptyReadIsDecoded ==
    /\ ~DeserializeCommand(<<>>).ok
    /\ \A s \in Servers : \A k \in 1..Len(log[s]) :
           (log[s][k].e = "read" /\ log[s][k].n = 0)
               => /\ Len(log[s]) >= k + 2
                  /\ log[s][k + 1] = Ev("decode_err", log[s][k].c)
                  /\ log[s][k + 2] = Ev("drop", log[s][k].c)
                  /\ ops[log[s][k].c].decode = 1
                  /\ ops[log[s][k].c].process = 0
                  /\ IF Len(log[s]) = k + 2
                     THEN spc[s] = "idle" /\ ret[s] = "Err" /\ why[s] = "decode_err"
                     ELSE log[s][k + 3].e = "poll"

\* the client died before it wrote anything, the server read no bytes and
\* returned Err with another connection waiting
C15_Witness ==
    \E s \in Servers : \E i \in Clients :
        /\ cpc[i] = "killed" /\ cw[i] = 0 /\ peer[i] = s
        /\ log[s] # <<>> /\ Last(log[s]) = Ev("drop", i)
        /\ Count(s, "decode_err", i) = 1
        /\ ret[s] = "Err"
        /\ backlog[s] # <<>>

\* C16: process() is called only on the command decoded from a successful
\* read of the same connection; a connection that met a read error or a
\* decode error has no process() call, the context changes in no step but a
\* process() call, and a read error ends the invocation with Ok(()).
C16_ProcessOnlyDecoded ==
    /\ [](\A s \in Servers :
             /\ why[s] = "read_err" => ret[s] = "Ok" /\ spc[s] = "idle"
             /\ \A k \in 1..Len(log[s]) :
                    /\ log[s][k].e = "process"
                         => /\ k >= 3
                            /\ log[s][k - 1].e = "decode"
                            /\ log[s][k - 1].c = log[s][k].c
                            /\ log[s][k - 1].cmd = log[s][k].cmd
                            /\ log[s][k - 2].e = "read"
                            /\ log[s][k - 2].c = log[s][k].c
                    /\ log[s][k].e \in {"read_err", "decode_err"}
                         => ops[log[s][k].c].process = 0)
    /\ [][\A s \in Servers :
             context'[s] # context[s]
                 => /\ spc[s] = "process"
                    /\ why'[s] = "none"
                    /\ Last(log'[s]).e = "process"]_vars

\* one invocation: the first connection pushed a value, the second met a
\* read error; Ok(()) came back and the context holds the one value
C16_Witness ==
    \E s \in Servers :
        /\ why[s] = "read_err" /\ ret[s] = "Ok"
        /\ Count(s, "poll", 0) = 1
        /\ Len(context[s]) = 1

IsPrefix(a, b) == Len(a) <= Len(b) /\ SubSeq(b, 1, Len(a)) = a

\* C17: when the response write fails, process() has run once for the
\* connection before the write began, handle_new_messages returns Err, the
\* client has no response, and the context still holds what process() did:
\* the context is only ever extended, once per mutating process() call.
C17_EffectSurvivesWriteError ==
    /\ [](\A s \in Servers :
             /\ why[s] = "write_err" => ret[s] = "Err" /\ spc[s] = "idle"
             /\ Len(context[s]) = Len(Pushed(log[s]))
             /\ \A k \in 1..Len(log[s]) :
                    log[s][k].e = "write_err"
                        => /\ ops[log[s][k].c].process = 1
                           /\ cres[log[s][k].c].kind # "response"
                           /\ \E j \in 1..(k - 1) :
                                  /\ log[s][j].e = "process"
                                  /\ log[s][j].c = log[s][k].c
                                  /\ log[s][j + 1] = Ev("write", log[s][k].c)
                                  /\ IsPrefix(Pushed(SubSeq(log[s], 1, j)), context[s]))
    /\ [][\A s \in Servers : IsPrefix(context[s], context'[s])]_vars

\* a Push was processed, its response could not be written, Err came back:
\* the value is in the context and the client has no response
C17_Witness ==
    \E s \in Servers : \E i \in Clients :
        /\ why[s] = "write_err" /\ ret[s] = "Err"
        /\ peer[i] = s /\ Sent(i).op = "Push"
        /\ Last(log[s]) = Ev("drop", i)
        /\ context[s] # <<>> /\ Last(context[s]) = Sent(i).a
        /\ cres[i].kind # "response"

\* C18: with handle_new_messages called again and again, a connection in the
\* listener's backlog is eventually accepted (or reset with the listener),
\* even if no other client connects after it.
C18_BacklogDrained ==
    \A i \in Clients : [](cst[i] = "backlog" => <>(cst[i] # "backlog"))

\* the server accepted connection i and dropped it without a whole response
Abandoned(i) ==
    /\ peer[i] # 0 /\ cst[i] = "closed" /\ ops[i].accept = 1
    /\ Count(peer[i], "write_ok", i) = 0

\* C19: once the server has dropped an accepted connection without having
\* written a response, a client_send waiting in its read loop gets end of
\* stream, bytes that do not decode, or an error from its next read, and
\* returns; every client_send on such a connection comes to an end.
C19_AbandonedClientReturns ==
    /\ [](\A i \in Clients :
             (Abandoned(i) /\ cpc[i] = "read")
                 => /\ ClientReadResult(i).kind # "WouldBlock"
                    /\ ~DeserializeResponse(ClientReadResult(i).bytes).ok)
    /\ [][\A i \in Clients :
             (Abandoned(i) /\ cpc[i] = "read"
                 /\ <<cpc[i], cres[i], cwb[i]>> # <<cpc'[i], cres'[i], cwb'[i]>>)
                 => /\ cpc'[i] = "done" /\ cclosed'[i]
                    /\ cres'[i].kind \in {"parse_failed", "read_failed"}]_vars
    /\ \A i \in Clients : [](Abandoned(i) => <>Finished(i))

\* the server dropped the connection on a decode error with a byte of the
\* command unread, the waiting client's read failed and client_send returned
C19_Witness ==
    \E i \in Clients :
        /\ Abandoned(i) /\ rst[i]
        /\ Count(peer[i], "decode_err", i) = 1
        /\ cpc[i] = "done" /\ cres[i].kind = "read_failed"
====
